---- MODULE Spec2Model ----
(***************************************************************************)
(* Model of the TaskManager package (src/taskman): the three process       *)
(* storages (ProcessStorage, FIFOProcessStorage, PriorityProcessStorage),  *)
(* the Process stub with its kill callback, and the TaskManager facade.    *)
(*                                                                         *)
(* A Process object is a record [pid, priority, created, cb]:              *)
(*   pid      process.pid.value, the key of the storage dictionary,        *)
(*   priority ProcessPriority (LOW = 0, MEDIUM = 1, HIGH = 2),             *)
(*   created  the datetime.now() reading taken by Process.__init__,        *)
(*   cb       the kill callback: NoCb (None) or Mgr (the bound method      *)
(*            TaskManager._process_kill_callback).                         *)
(* The storage dictionary is a sequence of such records in insertion       *)
(* order (a Python dict enumerates in insertion order), keyed by pid.      *)
(*                                                                         *)
(* Process objects built by the caller are inputs of the operations; the   *)
(* objects built by TaskManager.add are kept in handles when the facade    *)
(* returns them.                                                           *)
(*                                                                         *)
(* last records what the latest call let its caller observe: op its name,  *)
(* res the StorageOperationResult of the storage.add / storage.remove it   *)
(* made, ret what the facade or Process.kill returned, kills the Process   *)
(* objects whose kill() an add invoked, evicted the records an add took    *)
(* out of the dictionary.                                                  *)
(*                                                                         *)
(* calls holds, for each thread, the add call it is in the middle of: the  *)
(* statement it will execute next (pc), the Process it was given (p),      *)
(* whether it is in the retry after an eviction (retry), the victim it     *)
(* picked and whether that victim left the dictionary (removed). In the    *)
(* single-threaded specifications every call runs to its end in one step   *)
(* and calls never changes.                                                *)
(*                                                                         *)
(* stale is a history variable: the handles the caller holds whose records *)
(* were taken out of the dictionary by the eviction of a later add.        *)
(***************************************************************************)
EXTENDS Integers, Sequences, FiniteSets, TLC

VARIABLES policy, capacity, storage, handles, npid, now, last, calls, stale

vars == <<policy, capacity, storage, handles, npid, now, last, calls, stale>>

\* ---- bounds of the model ------------------------------------------------
MaxCap == 2
MaxPid == 3
MaxTime == 2
MaxHandles == 1

\* ---- program constants --------------------------------------------------
LOW == 0
MEDIUM == 1
HIGH == 2
ProcessPriority == {LOW, MEDIUM, HIGH}

NoCb == 0
Mgr == 1

Policies == {"BASE", "FIFO", "PRIORITY"}

StorageOperationResult == {"OK", "FAILED", "FULL", "REMOVED_OLDEST", "REMOVED_LOWEST"}

\* ---- helpers on the dictionary ------------------------------------------
Range(s) == {s[i] : i \in 1..Len(s)}

\* self._storage.keys()
Keys(st) == {st[i].pid : i \in 1..Len(st)}

\* self._storage[key]
Lookup(st, key) == st[CHOOSE i \in 1..Len(st) : st[i].pid = key]

\* del self._storage[key]
DelKey(st, key) == SelectSeq(st, LAMBDA r : r.pid # key)

\* Python's min(iterable, key=...): the first element, in iteration order,
\* whose key is minimal; here with key = created
FirstMinCreated(s) ==
    s[CHOOSE i \in 1..Len(s) :
        /\ \A j \in 1..Len(s) : s[i].created <= s[j].created
        /\ \A j \in 1..(i-1) : s[j].created # s[i].created]

\* the same with key = priority
FirstMinPriority(s) ==
    s[CHOOSE i \in 1..Len(s) :
        /\ \A j \in 1..Len(s) : s[i].priority <= s[j].priority
        /\ \A j \in 1..(i-1) : s[j].priority # s[i].priority]

\* ---- ProcessStorage -----------------------------------------------------
\* faulty variant of BaseAdd: the capacity test is off by one
BaseAdd_OffByOne(st, p) ==
    IF Len(st) > capacity
    THEN [res |-> "FULL", st |-> st, kills |-> {}]
    ELSE IF p.pid \in Keys(st)
         THEN [res |-> "FAILED", st |-> st, kills |-> {}]
         ELSE [res |-> "OK", st |-> Append(st, p), kills |-> {}]

\* faulty variant of BaseAdd: the duplicate test comes before the capacity test
BaseAdd_DupFirst(st, p) ==
    IF p.pid \in Keys(st)
    THEN [res |-> "FAILED", st |-> st, kills |-> {}]
    ELSE IF Len(st) >= capacity
         THEN [res |-> "FULL", st |-> st, kills |-> {}]
         ELSE [res |-> "OK", st |-> Append(st, p), kills |-> {}]

\* ProcessStorage.add
BaseAdd(st, p) ==
    IF Len(st) >= capacity
    THEN [res |-> "FULL", st |-> st, kills |-> {}]
    ELSE IF p.pid \in Keys(st)
         THEN [res |-> "FAILED", st |-> st, kills |-> {}]
         ELSE [res |-> "OK", st |-> Append(st, p), kills |-> {}]

\* faulty variant of Remove: an absent key is reported as removed
Remove_Silent(st, p) == [res |-> "OK", st |-> DelKey(st, p.pid), kills |-> {}]

\* faulty variant of Remove: the record is terminated before it is deleted
Remove_Killing(st, p) ==
    IF p.pid \notin Keys(st)
    THEN [res |-> "FAILED", st |-> st, kills |-> {}]
    ELSE [res |-> "OK", st |-> DelKey(st, p.pid), kills |-> {Lookup(st, p.pid)}]

\* ProcessStorage.remove; kills are the Process objects whose kill() it
\* invokes: it invokes none
Remove(st, p) ==
    IF p.pid \notin Keys(st)
    THEN [res |-> "FAILED", st |-> st, kills |-> {}]
    ELSE [res |-> "OK", st |-> DelKey(st, p.pid), kills |-> {}]

\* faulty variant of ProcessKillCallback: the result of remove is not looked at
ProcessKillCallback_AlwaysTrue(st, p) ==
    LET r == Remove(st, p) IN [ret |-> TRUE, st |-> r.st]

\* TaskManager._process_kill_callback
ProcessKillCallback(st, p) ==
    LET r == Remove(st, p) IN [ret |-> (r.res = "OK"), st |-> r.st]

\* faulty variant of Kill: the kill callback is never invoked
Kill_Unwired(st, p) == [ret |-> TRUE, st |-> st]

\* Process.kill
Kill(st, p) ==
    IF p.cb # NoCb THEN ProcessKillCallback(st, p) ELSE [ret |-> TRUE, st |-> st]

\* faulty variant of KillList: only the first Process of the list is killed
KillList_First(st, procs) ==
    IF procs = <<>> THEN [count |-> 0, st |-> st]
    ELSE LET k == Kill(st, Head(procs))
         IN [count |-> IF k.ret THEN 1 ELSE 0, st |-> k.st]

\* Process.kill_list: kill() of every Process of the list in turn, counting
\* the calls that return True
RECURSIVE KillList(_, _)
KillList(st, procs) ==
    IF procs = <<>> THEN [count |-> 0, st |-> st]
    ELSE LET k == Kill(st, Head(procs))
             rest == KillList(k.st, Tail(procs))
         IN [count |-> rest.count + (IF k.ret THEN 1 ELSE 0), st |-> rest.st]

\* faulty variant of ToKill: the records of lower priority are taken as well
ToKill_AtMost(st, prio) == SelectSeq(st, LAMBDA r : r.priority <= prio)

\* TaskManager.kill_group, to_kill: the stored records of the given
\* priority, collected before any of them is killed
ToKill(st, prio) == SelectSeq(st, LAMBDA r : r.priority = prio)

\* ---- ProcessStorage.list ------------------------------------------------
ProcessSortCriteria == {"TIME", "PRIORITY", "PID"}
ProcessSortOrder == {"ASC", "DESC"}

\* faulty variant of SortKey: the criteria is ignored
SortKey_AlwaysTime(r, criteria) == r.created

\* ProcessStorage.list, the key= lambda chosen by the criteria
SortKey(r, criteria) ==
    CASE criteria = "TIME" -> r.created
      [] criteria = "PRIORITY" -> r.priority
      [] criteria = "PID" -> r.pid

\* the place list.sort gives s[i] in ascending order: after every element
\* of smaller key and after the elements of equal key that precede it
\* (Python's sort is stable)
Rank(s, criteria, i) ==
    Cardinality({j \in 1..Len(s) :
                   \/ SortKey(s[j], criteria) < SortKey(s[i], criteria)
                   \/ SortKey(s[j], criteria) = SortKey(s[i], criteria) /\ j < i}) + 1

Sorted(s, criteria) ==
    [k \in 1..Len(s) |-> s[CHOOSE i \in 1..Len(s) : Rank(s, criteria, i) = k]]

Reverse(s) == [k \in 1..Len(s) |-> s[Len(s) + 1 - k]]

\* faulty variant of SortList: descending order as the ascending result
\* read backwards
SortList_ReverseAfter(s, criteria, reverse) ==
    IF reverse THEN Reverse(Sorted(s, criteria)) ELSE Sorted(s, criteria)

\* result.sort(key=..., reverse=is_desc_order): with reverse the list is
\* reversed, sorted ascending and reversed again
SortList(s, criteria, reverse) ==
    IF reverse THEN Reverse(Sorted(Reverse(s), criteria)) ELSE Sorted(s, criteria)

\* faulty variant of List: the dictionary itself is reordered
List_InPlace(st, criteria, order) ==
    [result |-> SortList(st, criteria, order = "DESC"),
     st |-> SortList(st, criteria, order = "DESC")]

\* ProcessStorage.list: the records are appended to a new list in the
\* enumeration order of the dictionary, and that list is sorted
List(st, criteria, order) ==
    [result |-> SortList(st, criteria, order = "DESC"), st |-> st]

\* ---- FIFOProcessStorage -------------------------------------------------
\* faulty variant of Oldest: the newest record is picked
Oldest_Newest(st) ==
    st[CHOOSE i \in 1..Len(st) : \A j \in 1..Len(st) : st[i].created >= st[j].created].pid

\* FIFOProcessStorage.add, the key of the oldest process:
\* min(self._storage.keys(), key=lambda key: self._storage[key].created)
Oldest(st) == FirstMinCreated(st).pid

\* faulty variant of FIFOAdd: the result of the retry is returned as it is
FIFOAdd_PassThrough(st, p) ==
    LET r == BaseAdd(st, p) IN
    IF r.res # "FULL" THEN r
    ELSE IF Len(st) = 0 THEN [res |-> "RAISED", st |-> st, kills |-> {}]
    ELSE LET victim == Lookup(st, Oldest(st))
             k == Kill(st, victim)
             r2 == BaseAdd(k.st, p)
         IN IF r2.res = "OK"
            THEN [res |-> "REMOVED_OLDEST", st |-> r2.st, kills |-> {victim}]
            ELSE [res |-> r2.res, st |-> r2.st, kills |-> {victim}]

\* FIFOProcessStorage.add; min() of an empty dictionary raises ValueError
FIFOAdd(st, p) ==
    LET r == BaseAdd(st, p) IN
    IF r.res # "FULL" THEN r
    ELSE IF Len(st) = 0 THEN [res |-> "RAISED", st |-> st, kills |-> {}]
    ELSE LET victim == Lookup(st, Oldest(st))
             k == Kill(st, victim)
             r2 == BaseAdd(k.st, p)
         IN IF r2.res = "OK"
            THEN [res |-> "REMOVED_OLDEST", st |-> r2.st, kills |-> {victim}]
            ELSE [res |-> "FAILED", st |-> r2.st, kills |-> {victim}]

\* ---- PriorityProcessStorage ---------------------------------------------
\* PriorityProcessStorage.add, lowest_priority
LowestPriority(st) == FirstMinPriority(st).priority

\* faulty variant of PriorityTooLow: equal priority is allowed to evict
PriorityTooLow_Strict(p, lowest) == p.priority < lowest

\* PriorityProcessStorage.add, the rejection test
PriorityTooLow(p, lowest) == p.priority <= lowest

\* faulty variant of OldestAmongLowest: the oldest record of the whole storage
OldestAmongLowest_Any(st, lowest) == FirstMinCreated(st)

\* PriorityProcessStorage.add, oldest_among_lowest
OldestAmongLowest(st, lowest) ==
    FirstMinCreated(SelectSeq(st, LAMBDA r : r.priority = lowest))

\* PriorityProcessStorage.add; min() of an empty dictionary raises ValueError
PriorityAdd(st, p) ==
    LET r == BaseAdd(st, p) IN
    IF r.res # "FULL" THEN r
    ELSE IF Len(st) = 0 THEN [res |-> "RAISED", st |-> st, kills |-> {}]
    ELSE LET lowest == LowestPriority(st) IN
         IF PriorityTooLow(p, lowest)
         THEN [res |-> "FAILED", st |-> st, kills |-> {}]
         ELSE LET victim == OldestAmongLowest(st, lowest)
                  st2 == DelKey(st, victim.pid)
                  r2 == BaseAdd(st2, p)
              IN IF r2.res = "OK"
                 THEN [res |-> "REMOVED_LOWEST", st |-> r2.st, kills |-> {}]
                 ELSE [res |-> "OK", st |-> r2.st, kills |-> {}]

\* storage.add(process), dispatched on the class of the storage
Add(st, p) ==
    CASE policy = "BASE" -> BaseAdd(st, p)
      [] policy = "FIFO" -> FIFOAdd(st, p)
      [] policy = "PRIORITY" -> PriorityAdd(st, p)

\* ---- state --------------------------------------------------------------
\* Process.__init__ without a kill callback: Process(PID(pid), cmd, prio),
\* built by the caller when the clock read t
Process(pid, prio, t) == [pid |-> pid, priority |-> prio, created |-> t, cb |-> NoCb]

\* the Process objects a caller can pass to an operation: the ones it builds
\* itself (any identifier in use or a new one, built now or earlier), the
\* handles TaskManager.add returned and the records the storage enumerates
Callers ==
    {Process(pid, prio, t) : pid \in 1..(IF npid < MaxPid THEN npid + 1 ELSE MaxPid),
                             prio \in ProcessPriority, t \in 1..now}
Reachable == Callers \cup handles \cup Range(storage)

\* remove and kill read nothing of a Process but its pid and its callback:
\* one caller-built object for each identifier stands for all of them
Targets ==
    {Process(pid, LOW, now) : pid \in 1..(IF npid < MaxPid THEN npid + 1 ELSE MaxPid)}
        \cup handles \cup Range(storage)

\* TaskManager.add: Process(PidGenerator.generate(), cmd, priority) with the
\* kill callback set; the generated pid is one no Process has had
ManagerProcess(prio) == [pid |-> npid + 1, priority |-> prio, created |-> now, cb |-> Mgr]

\* the identifiers in use after p was built
Used(p) == IF p.pid > npid THEN p.pid ELSE npid

\* the threads that use the storage at the same time
Threads == {1, 2}

\* no Process: the p and the victim of a thread that holds none
NoProcess == [pid |-> 0, priority |-> LOW, created |-> 0, cb |-> NoCb]

\* a thread that is not inside add
Idle == [pc |-> "idle", p |-> NoProcess, retry |-> FALSE, removed |-> FALSE]

\* the handles whose records an add has evicted, once the dictionary has
\* become st2: those already evicted and the held handles that left the
\* dictionary, but for the ones stored (again)
StaleAfter(st2) ==
    (stale \cup ((Range(storage) \ Range(st2)) \cap handles)) \ Range(st2)

Init ==
    /\ policy \in Policies
    /\ capacity \in 0..MaxCap
    /\ storage = <<>>
    /\ handles = {}
    /\ npid = 0
    /\ now = 1
    /\ last = [op |-> "init", res |-> "NA", ret |-> "NA", kills |-> {}, evicted |-> {}]
    /\ calls = [t \in Threads |-> Idle]
    /\ stale = {}

\* the clock read by dt.now() advances
Tick ==
    /\ now < MaxTime
    /\ now' = now + 1
    /\ UNCHANGED <<policy, capacity, storage, handles, npid, last, calls, stale>>

\* storage.add(process) called on the storage directly
StorageAdd(p) ==
    /\ LET r == Add(storage, p) IN
       /\ storage' = r.st
       /\ last' = [op |-> "storage.add", res |-> r.res, ret |-> "NA",
                   kills |-> r.kills, evicted |-> Range(storage) \ Range(r.st)]
    /\ npid' = Used(p)
    /\ stale' = StaleAfter(storage')
    /\ UNCHANGED <<policy, capacity, handles, now, calls>>

\* storage.remove(process) called on the storage directly
StorageRemove(p) ==
    /\ LET r == Remove(storage, p) IN
       /\ storage' = r.st
       /\ last' = [op |-> "storage.remove", res |-> r.res, ret |-> "NA",
                   kills |-> r.kills, evicted |-> {}]
    /\ npid' = Used(p)
    /\ UNCHANGED <<policy, capacity, handles, now, calls, stale>>

\* process.kill() called on a Process object
ProcessKill(p) ==
    /\ LET k == Kill(storage, p) IN
       /\ storage' = k.st
       /\ last' = [op |-> "process.kill", res |-> "NA",
                   ret |-> IF k.ret THEN "True" ELSE "False",
                   kills |-> {}, evicted |-> {}]
    /\ npid' = Used(p)
    /\ UNCHANGED <<policy, capacity, handles, now, calls, stale>>

\* TaskManager.add: a new Process with a generated (fresh) pid and the
\* kill callback bound, handed to the storage; keep tells whether the caller
\* keeps the returned handle or discards it
ManagerAdd(prio, keep) ==
    /\ npid < MaxPid
    /\ keep => Cardinality(handles) < MaxHandles
    /\ LET proc == ManagerProcess(prio)
           r == Add(storage, proc)
       IN CASE r.res = "RAISED" ->
                 /\ storage' = r.st
                 /\ handles' = handles
                 /\ last' = [op |-> "manager.add", res |-> r.res,
                             ret |-> "RAISED", kills |-> r.kills,
                             evicted |-> Range(storage) \ Range(r.st)]
            [] r.res = "FAILED" ->
                 LET k == Kill(r.st, proc) IN
                 /\ storage' = k.st
                 /\ handles' = handles
                 /\ last' = [op |-> "manager.add", res |-> r.res,
                             ret |-> "None", kills |-> r.kills \cup {proc},
                             evicted |-> Range(storage) \ Range(k.st)]
            [] OTHER ->
                 /\ storage' = r.st
                 /\ handles' = IF keep THEN handles \cup {proc} ELSE handles
                 /\ last' = [op |-> "manager.add", res |-> r.res,
                             ret |-> "Process", kills |-> r.kills,
                             evicted |-> Range(storage) \ Range(r.st)]
    /\ npid' = npid + 1
    /\ stale' = StaleAfter(storage')
    /\ UNCHANGED <<policy, capacity, now, calls>>

\* the caller drops a handle it holds
Drop(p) ==
    /\ handles' = handles \ {p}
    /\ stale' = stale \ {p}
    /\ UNCHANGED <<policy, capacity, storage, npid, now, last, calls>>

\* TaskManager.kill
ManagerKill(p) ==
    /\ LET k == Kill(storage, p) IN
       /\ storage' = k.st
       /\ last' = [op |-> "manager.kill", res |-> "NA",
                   ret |-> IF k.ret THEN "True" ELSE "False",
                   kills |-> {}, evicted |-> {}]
    /\ npid' = Used(p)
    /\ UNCHANGED <<policy, capacity, handles, now, calls, stale>>

DoStorageAdd == \E p \in Reachable : StorageAdd(p)
DoStorageRemove == \E p \in Targets : StorageRemove(p)
DoProcessKill == \E p \in Targets : ProcessKill(p)
DoManagerKill == \E p \in Targets : ManagerKill(p)
\* man.add(cmd, prio) with the result discarded, as most calls of main.py do
DoManagerAddDiscard == \E prio \in ProcessPriority : ManagerAdd(prio, FALSE)

\* every use of the package: a caller that works on the storage directly
\* with Process objects of its own, and through the facade; the records the
\* facade stored are reached by enumerating the storage
Next ==
    \/ Tick
    \/ DoStorageAdd
    \/ DoStorageRemove
    \/ DoProcessKill
    \/ DoManagerAddDiscard
    \/ DoManagerKill

Spec == Init /\ [][Next]_vars

\* the facade only: every Process is built by TaskManager.add and the caller
\* holds nothing but the handles it kept
DoManagerAdd == \E prio \in ProcessPriority, keep \in BOOLEAN : ManagerAdd(prio, keep)
DoDrop == \E p \in handles : Drop(p)
HandleKill == \E p \in handles : ProcessKill(p)
FacadeKill == \E p \in handles : ManagerKill(p)

\* TaskManager.kill_group; count is the number it returns
ManagerKillGroup(prio) ==
    /\ LET to_kill == ToKill(storage, prio)
           r == KillList(storage, to_kill)
       IN /\ storage' = r.st
          /\ last' = [op |-> "manager.kill_group", res |-> "NA", ret |-> "NA",
                      kills |-> Range(to_kill),
                      evicted |-> Range(storage) \ Range(r.st),
                      priority |-> prio, count |-> r.count]
    /\ UNCHANGED <<policy, capacity, handles, npid, now, calls, stale>>

\* TaskManager.kill_all
ManagerKillAll ==
    /\ LET to_kill == storage
           r == KillList(storage, to_kill)
       IN /\ storage' = r.st
          /\ last' = [op |-> "manager.kill_all", res |-> "NA",
                      ret |-> IF r.count = Len(to_kill) THEN "True" ELSE "False",
                      kills |-> Range(to_kill),
                      evicted |-> Range(storage) \ Range(r.st)]
    /\ UNCHANGED <<policy, capacity, handles, npid, now, calls, stale>>

DoManagerKillGroup == \E prio \in ProcessPriority : ManagerKillGroup(prio)

\* the facade's bulk operations on a storage filled through TaskManager.add
NextBulk ==
    \/ Tick
    \/ DoManagerAddDiscard
    \/ DoManagerKillGroup
    \/ ManagerKillAll

SpecBulk == Init /\ [][NextBulk]_vars

NextManager ==
    \/ Tick
    \/ DoManagerAdd
    \/ DoDrop
    \/ FacadeKill
    \/ HandleKill

SpecManager == Init /\ [][NextManager]_vars

\* ---- TaskManager instances built without a storage argument -------------
Managers == {"man_a", "man_b"}

\* the ProcessStorage object built once, when def __init__ is evaluated, as
\* the default value of the storage parameter
DefaultStorage == "default_argument"

\* self._processes = storage: a TaskManager built without a storage argument
\* refers to the default value
Processes(m) == DefaultStorage

\* the dictionary of a ProcessStorage object; the variable storage is the
\* dictionary of the default value
Dictionary(obj) == IF obj = DefaultStorage THEN storage ELSE <<>>

\* len(m) and m.list() of TaskManager m
LenOf(m) == Len(Dictionary(Processes(m)))
ListOf(m) == List(Dictionary(Processes(m)), "TIME", "ASC").result

\* m.add(cmd, prio), m.kill(p) and m.kill_all(): each works on m._processes
AddThrough(m, prio) == Processes(m) = DefaultStorage /\ ManagerAdd(prio, FALSE)
KillThrough(m, p) == Processes(m) = DefaultStorage /\ ManagerKill(p)
KillAllThrough(m) == Processes(m) = DefaultStorage /\ ManagerKillAll

\* the default value is a base ProcessStorage of the configured capacity
InitShared ==
    /\ policy = "BASE"
    /\ capacity \in 0..MaxCap
    /\ storage = <<>>
    /\ handles = {}
    /\ npid = 0
    /\ now = 1
    /\ last = [op |-> "init", res |-> "NA", ret |-> "NA", kills |-> {}, evicted |-> {}]
    /\ calls = [t \in Threads |-> Idle]
    /\ stale = {}

DoAddThrough == \E m \in Managers, prio \in ProcessPriority : AddThrough(m, prio)
DoKillThrough == \E m \in Managers : \E p \in Range(Dictionary(Processes(m))) : KillThrough(m, p)
DoKillAllThrough == \E m \in Managers : KillAllThrough(m)

NextShared ==
    \/ Tick
    \/ DoAddThrough
    \/ DoKillThrough
    \/ DoKillAllThrough

SpecShared == InitShared /\ [][NextShared]_vars

\* storage.list(criteria, order); again tells that the call before this one
\* was a list with the same arguments
StorageList(criteria, order) ==
    /\ LET r == List(storage, criteria, order) IN
       /\ storage' = r.st
       /\ last' = [op |-> "storage.list", res |-> "NA", ret |-> "NA",
                   kills |-> {}, evicted |-> {},
                   criteria |-> criteria, order |-> order, result |-> r.result,
                   again |-> /\ last.op = "storage.list"
                             /\ last.criteria = criteria
                             /\ last.order = order]
    /\ UNCHANGED <<policy, capacity, handles, npid, now, calls, stale>>

DoStorageList ==
    \E criteria \in ProcessSortCriteria, order \in ProcessSortOrder :
        StorageList(criteria, order)

\* list reads nothing but the dictionary: it is checked on every dictionary
\* a base storage of capacity MaxCap can hold, records of any pid, priority
\* and creation time in any insertion order
Records ==
    {Process(pid, prio, t) : pid \in 1..MaxPid, prio \in ProcessPriority, t \in 1..MaxTime}

Dictionaries ==
    {s \in UNION {[1..n -> Records] : n \in 0..MaxCap} :
        \A i, j \in 1..Len(s) : i # j => s[i].pid # s[j].pid}

InitList ==
    /\ policy = "BASE"
    /\ capacity = MaxCap
    /\ storage \in Dictionaries
    /\ handles = {}
    /\ npid = MaxPid
    /\ now = MaxTime
    /\ last = [op |-> "init", res |-> "NA", ret |-> "NA", kills |-> {}, evicted |-> {}]
    /\ calls = [t \in Threads |-> Idle]
    /\ stale = {}

NextList == DoStorageList

SpecList == InitList /\ [][NextList]_vars

\* ---- add, statement by statement ----------------------------------------
\* self._storage[pid] = process: a key already present keeps its place
Put(st, p) ==
    IF p.pid \in Keys(st)
    THEN [i \in 1..Len(st) |-> IF st[i].pid = p.pid THEN p ELSE st[i]]
    ELSE Append(st, p)

\* the Process objects a thread hands to storage.add: the one TaskManager.add
\* has just built, or a stored record submitted once more
ThreadInputs ==
    {ManagerProcess(prio) : prio \in IF npid < MaxPid THEN ProcessPriority ELSE {}}
        \cup Range(storage)

\* add returns res to the caller in thread t
Return(t, res) ==
    /\ calls' = [calls EXCEPT ![t] = Idle]
    /\ last' = [op |-> "thread.add", res |-> res, ret |-> "NA"]

\* what the eviction policies make of the result of the retry
RetryResult(base) ==
    CASE policy = "FIFO" -> IF base = "OK" THEN "REMOVED_OLDEST" ELSE "FAILED"
      [] policy = "PRIORITY" -> IF base = "OK" THEN "REMOVED_LOWEST" ELSE "OK"
      [] policy = "BASE" -> base

\* thread t enters storage.add(p)
ThreadCall(t, p) ==
    /\ calls[t].pc = "idle"
    /\ calls' = [calls EXCEPT ![t] = [pc |-> "capacity", p |-> p, retry |-> FALSE, removed |-> FALSE]]
    /\ npid' = Used(p)
    /\ UNCHANGED <<policy, capacity, storage, handles, now, last, stale>>

\* ProcessStorage.add, the capacity test
ThreadCapacity(t) ==
    /\ calls[t].pc = "capacity"
    /\ IF Len(storage) < capacity
       THEN calls' = [calls EXCEPT ![t].pc = "dup"] /\ last' = last
       ELSE IF calls[t].retry THEN Return(t, RetryResult("FULL"))
       ELSE IF policy = "BASE" THEN Return(t, "FULL")
       ELSE calls' = [calls EXCEPT ![t].pc = "full"] /\ last' = last
    /\ UNCHANGED <<policy, capacity, storage, handles, npid, now, stale>>

\* ProcessStorage.add, the duplicate test
ThreadDuplicate(t) ==
    /\ calls[t].pc = "dup"
    /\ IF calls[t].p.pid \notin Keys(storage)
       THEN calls' = [calls EXCEPT ![t].pc = "insert"] /\ last' = last
       ELSE IF calls[t].retry THEN Return(t, RetryResult("FAILED"))
       ELSE Return(t, "FAILED")
    /\ UNCHANGED <<policy, capacity, storage, handles, npid, now, stale>>

\* ProcessStorage.add, the insertion
ThreadInsert(t) ==
    /\ calls[t].pc = "insert"
    /\ storage' = Put(storage, calls[t].p)
    /\ IF calls[t].retry THEN Return(t, RetryResult("OK")) ELSE Return(t, "OK")
    /\ stale' = StaleAfter(storage')
    /\ UNCHANGED <<policy, capacity, handles, npid, now>>

\* FIFOProcessStorage.add / PriorityProcessStorage.add after the base add
\* returned FULL: the victim is picked and killed (FIFO) or deleted
\* (Priority), and the retry is still to come
ThreadEvict(t) ==
    /\ calls[t].pc = "full"
    /\ IF Len(storage) = 0
       THEN storage' = storage /\ Return(t, "RAISED")
       ELSE IF policy = "FIFO"
       THEN LET victim == Lookup(storage, Oldest(storage))
                k == Kill(storage, victim)
            IN /\ storage' = k.st
               /\ calls' = [calls EXCEPT ![t] =
                     [pc |-> "capacity", p |-> calls[t].p, retry |-> TRUE,
                      removed |-> victim \notin Range(k.st)]]
               /\ last' = last
       ELSE LET lowest == LowestPriority(storage) IN
            IF PriorityTooLow(calls[t].p, lowest)
            THEN storage' = storage /\ Return(t, "FAILED")
            ELSE LET victim == OldestAmongLowest(storage, lowest) IN
                 /\ storage' = DelKey(storage, victim.pid)
                 /\ calls' = [calls EXCEPT ![t] =
                       [pc |-> "capacity", p |-> calls[t].p, retry |-> TRUE,
                        removed |-> TRUE]]
                 /\ last' = last
    /\ stale' = StaleAfter(storage')
    /\ UNCHANGED <<policy, capacity, handles, npid, now>>

\* len(storage) read by another thread; midway tells that some add has taken
\* its victim out of the dictionary and has not finished its retry
ReaderLen ==
    /\ last' = [op |-> "storage.len", res |-> "NA", ret |-> "NA",
                kills |-> {}, evicted |-> {}, len |-> Len(storage),
                midway |-> \E t \in Threads : calls[t].removed]
    /\ UNCHANGED <<policy, capacity, storage, handles, npid, now, calls, stale>>

DoThreadCall == \E t \in Threads, p \in ThreadInputs : ThreadCall(t, p)
DoThreadCapacity == \E t \in Threads : ThreadCapacity(t)
DoThreadDuplicate == \E t \in Threads : ThreadDuplicate(t)
DoThreadInsert == \E t \in Threads : ThreadInsert(t)
DoThreadEvict == \E t \in Threads : ThreadEvict(t)

\* two threads inside add on the same storage, with no lock in the code to
\* order their statements, and a third that reads len
NextThreads ==
    \/ Tick
    \/ DoThreadCall
    \/ DoThreadCapacity
    \/ DoThreadDuplicate
    \/ DoThreadInsert
    \/ DoThreadEvict
    \/ ReaderLen

SpecThreads == Init /\ [][NextThreads]_vars

TypeOK ==
    /\ policy \in Policies
    /\ capacity \in 0..MaxCap
    /\ npid \in 0..MaxPid
    /\ now \in 1..MaxTime
    /\ \A i \in 1..Len(storage) : storage[i].pid \in 1..npid
    /\ \A r \in handles : r.pid \in 1..npid /\ r.cb = Mgr
    /\ Cardinality(handles) <= MaxHandles
    /\ last.res \in StorageOperationResult \cup {"NA", "RAISED"}
    /\ last.ret \in {"NA", "None", "Process", "True", "False", "RAISED"}

\* ---- properties ---------------------------------------------------------
\* the stored records of minimum creation time
IsOldest(v, st) == v \in Range(st) /\ \A r \in Range(st) : v.created <= r.created

\* C1: capacity invariant. In each of the three storages with capacity
\* C >= 1, after every add / remove / kill call the number of stored
\* records is at most C.
C1_CapacityInvariant == capacity >= 1 => Len(storage) <= capacity

\* C1 witness: an add on a storage at capacity has replaced a record and the
\* storage is still exactly at capacity
C1_Witness ==
    /\ capacity >= 1
    /\ Len(storage) = capacity
    /\ last.op = "storage.add"
    /\ last.res = "REMOVED_OLDEST"

\* C2: FIFO victim selection. When a TaskManager backed by a full
\* FIFOProcessStorage adds a process, a stored record of minimum creation
\* time is killed and removed, the new record is stored, the storage reports
\* REMOVED_OLDEST, and the stored set is the old set minus that record plus
\* the new one.
C2_FifoVictimSelection ==
    [][\A prio \in ProcessPriority, keep \in BOOLEAN :
         (/\ policy = "FIFO"
          /\ Len(storage) >= 1
          /\ Len(storage) >= capacity
          /\ last'.op = "manager.add"
          /\ ManagerAdd(prio, keep))
         => /\ last'.res = "REMOVED_OLDEST"
            /\ last'.ret = "Process"
            /\ \E v \in Range(storage) :
                 /\ IsOldest(v, storage)
                 /\ v \in last'.kills
                 /\ last'.evicted = {v}
                 /\ Range(storage') = (Range(storage) \ {v}) \cup {ManagerProcess(prio)}
            /\ Len(storage') = Len(storage)]_vars

\* C2 witness: the facade's add on a full FIFO storage of two records has
\* evicted one of them, and the record that stayed is younger
C2_Witness ==
    /\ policy = "FIFO"
    /\ last.op = "manager.add"
    /\ last.res = "REMOVED_OLDEST"
    /\ Len(storage) = 2
    /\ \E e \in last.evicted : e.created < storage[1].created

\* C3: FIFO always accepts. On a FIFOProcessStorage of capacity C >= 1 that
\* holds C records, every add of a record with a new id returns
\* REMOVED_OLDEST and the storage still holds exactly C records.
C3_FifoAlwaysAccepts ==
    [][\A p \in Reachable :
         (/\ policy = "FIFO"
          /\ capacity >= 1
          /\ Len(storage) = capacity
          /\ p.pid \notin Keys(storage)
          /\ last'.op = "storage.add"
          /\ StorageAdd(p))
         => /\ last'.res = "REMOVED_OLDEST"
            /\ Len(storage') = capacity]_vars

\* C4: FIFO eviction removes the victim inside add. On a full
\* FIFOProcessStorage, add of a record with a new id takes the oldest stored
\* record out of the dictionary, whether or not that record has a kill
\* callback.
C4_FifoEvictionRemovesVictim ==
    [][\A p \in Reachable :
         (/\ policy = "FIFO"
          /\ Len(storage) >= 1
          /\ Len(storage) >= capacity
          /\ p.pid \notin Keys(storage)
          /\ last'.op = "storage.add"
          /\ StorageAdd(p))
         => \E v \in Range(storage) : IsOldest(v, storage) /\ v \notin Range(storage')]_vars

\* C5: priority rejection. On a full PriorityProcessStorage, add of a record
\* whose priority is not above the minimum stored priority returns FAILED
\* and leaves the dictionary as it was; through the facade the same add
\* gives None.
C5_PriorityRejection ==
    [][/\ \A p \in Reachable :
            (/\ policy = "PRIORITY"
             /\ Len(storage) >= 1
             /\ Len(storage) >= capacity
             /\ \A r \in Range(storage) : p.priority <= r.priority
             /\ last'.op = "storage.add"
          /\ StorageAdd(p))
            => last'.res = "FAILED" /\ storage' = storage
       /\ \A prio \in ProcessPriority, keep \in BOOLEAN :
            (/\ policy = "PRIORITY"
             /\ Len(storage) >= 1
             /\ Len(storage) >= capacity
             /\ \A r \in Range(storage) : prio <= r.priority
             /\ last'.op = "manager.add"
          /\ ManagerAdd(prio, keep))
            => last'.res = "FAILED" /\ last'.ret = "None" /\ storage' = storage]_vars

\* C5 witness: a direct add on a full priority storage was refused
C5_Witness ==
    /\ policy = "PRIORITY"
    /\ capacity >= 1
    /\ Len(storage) = capacity
    /\ last.op = "storage.add"
    /\ last.res = "FAILED"
    /\ last.evicted = {}

\* C6: priority victim selection. On a full PriorityProcessStorage, add of a
\* record with a new id and a priority above the minimum stored priority
\* removes exactly one record, the oldest of the records of minimum
\* priority, stores the new record after the others and returns
\* REMOVED_LOWEST.
C6_PriorityVictimSelection ==
    [][\A p \in Reachable :
         (/\ policy = "PRIORITY"
          /\ Len(storage) >= 1
          /\ Len(storage) >= capacity
          /\ p.pid \notin Keys(storage)
          /\ \E r \in Range(storage) : p.priority > r.priority
          /\ last'.op = "storage.add"
          /\ StorageAdd(p))
         => /\ last'.res = "REMOVED_LOWEST"
            /\ \E v \in Range(storage) :
                 /\ \A r \in Range(storage) : v.priority <= r.priority
                 /\ \A r \in Range(storage) :
                      r.priority = v.priority => v.created <= r.created
                 /\ storage' = Append(DelKey(storage, v.pid), p)
                 /\ last'.evicted = {v}]_vars

\* C6 witness: the evicted record was the older of two records of the lowest
\* priority; the younger one is still stored
C6_Witness ==
    /\ policy = "PRIORITY"
    /\ last.op = "storage.add"
    /\ last.res = "REMOVED_LOWEST"
    /\ \E e \in last.evicted, r \in Range(storage) :
         r.priority = e.priority /\ r.created > e.created

\* C7: priority eviction terminates its victim. Every record a
\* PriorityProcessStorage.add takes out of the dictionary has its kill()
\* invoked during that add.
C7_PriorityEvictionKills ==
    (policy = "PRIORITY" /\ last.op \in {"storage.add", "manager.add"})
        => last.evicted \subseteq last.kills

\* C8: facade failure reporting. When the add of a storage of capacity
\* C >= 1 returns FULL or FAILED, TaskManager.add kills the Process it built
\* and returns None.
C8_FacadeFailureReporting ==
    (capacity >= 1 /\ last.op = "manager.add" /\ last.res \in {"FULL", "FAILED"})
        => /\ last.ret = "None"
           /\ \E p \in last.kills : p.pid = npid /\ p.cb = Mgr

\* C9: base policy rejection. On a base ProcessStorage that holds as many
\* records as its capacity, add of any record returns FULL and leaves the
\* dictionary as it was.
C9_BaseRejection ==
    [][\A p \in Reachable :
         (/\ policy = "BASE"
          /\ Len(storage) >= capacity
          /\ last'.op = "storage.add"
          /\ StorageAdd(p))
         => last'.res = "FULL" /\ storage' = storage]_vars

\* C9 witness: a base storage with at least one record refused an add
C9_Witness ==
    /\ policy = "BASE"
    /\ capacity >= 1
    /\ Len(storage) = capacity
    /\ last.op = "storage.add"
    /\ last.res = "FULL"

\* C10: duplicate rejection. In each storage and at any fill level, add of
\* a record whose pid is already a key returns FAILED and leaves the
\* dictionary as it was.
C10_DuplicateRejection ==
    [][\A p \in Reachable :
         (/\ p.pid \in Keys(storage)
          /\ last'.op = "storage.add"
          /\ StorageAdd(p))
         => last'.res = "FAILED" /\ storage' = storage]_vars

\* C11: FULL never escapes an eviction policy. Whatever the state and the
\* record, an add of FIFOProcessStorage that returns a value returns OK,
\* FAILED or REMOVED_OLDEST, and an add of PriorityProcessStorage that returns
\* a value returns OK, FAILED or REMOVED_LOWEST; neither returns FULL.
C11_FullNeverEscapes ==
    (last.op \in {"storage.add", "manager.add"} /\ last.res # "RAISED")
        => /\ policy = "FIFO" => last.res \in {"OK", "FAILED", "REMOVED_OLDEST"}
           /\ policy = "PRIORITY" => last.res \in {"OK", "FAILED", "REMOVED_LOWEST"}

\* C11 witness: a FIFO storage at capacity whose oldest record has no kill
\* callback: the retry met FULL again and the add reported FAILED
C11_Witness ==
    /\ policy = "FIFO"
    /\ capacity >= 1
    /\ Len(storage) = capacity
    /\ last.op = "storage.add"
    /\ last.res = "FAILED"
    /\ \E v \in last.kills : v \in Range(storage)

\* C12: OK means plain insertion. In each storage, an add that returns OK has
\* inserted its record after the others and removed nothing: the dictionary
\* afterwards is the old one with the record appended, one entry larger.
C12_OkMeansPlainInsertion ==
    [][\A p \in Reachable :
         (/\ last'.op = "storage.add"
          /\ StorageAdd(p)
          /\ last'.res = "OK")
         => /\ storage' = Append(storage, p)
            /\ Len(storage') = Len(storage) + 1
            /\ last'.evicted = {}]_vars

\* C13: capacity 0 is an outcome. On a storage of capacity 0, add of each of
\* the three storages returns a StorageOperationResult, raises nothing, and
\* the dictionary stays empty.
C13_CapacityZeroIsOutcome ==
    (capacity = 0 /\ last.op = "storage.add")
        => last.res \in StorageOperationResult /\ storage = <<>>

\* C14: removal of an absent record. In each storage, remove of a record
\* whose pid is not a key returns FAILED and leaves the dictionary as it was;
\* remove of a record whose pid is a key returns OK and deletes that key and
\* no other, the remaining records keeping their order.
C14_RemoveAbsentOrStored ==
    [][\A p \in Targets :
         (last'.op = "storage.remove" /\ StorageRemove(p))
         => IF p.pid \notin Keys(storage)
            THEN last'.res = "FAILED" /\ storage' = storage
            ELSE /\ last'.res = "OK"
                 /\ Keys(storage') = Keys(storage) \ {p.pid}
                 /\ Len(storage') = Len(storage) - 1
                 /\ \A i, j \in 1..Len(storage) :
                      (i < j /\ storage[i].pid # p.pid /\ storage[j].pid # p.pid)
                      => \E k, l \in 1..Len(storage') :
                           k < l /\ storage'[k] = storage[i] /\ storage'[l] = storage[j]]_vars

\* C14 witness: remove of an absent record was refused on a storage that
\* holds other records
C14_Witness ==
    /\ last.op = "storage.remove"
    /\ last.res = "FAILED"
    /\ Len(storage) >= 1

\* C15: termination callback wiring. For a handle returned by TaskManager.add
\* whose record is stored, TaskManager.kill(handle) and handle.kill() both
\* return True, make len one smaller and remove that record and no other;
\* for a handle whose record is no longer stored (a second kill) both return
\* False and change nothing.
C15_KillCallbackWiring ==
    [][\A h \in handles :
         (\/ last'.op = "manager.kill" /\ ManagerKill(h)
          \/ last'.op = "process.kill" /\ ProcessKill(h))
         => IF h \in Range(storage)
            THEN /\ last'.ret = "True"
                 /\ Len(storage') = Len(storage) - 1
                 /\ Range(storage') = Range(storage) \ {h}
            ELSE /\ last'.ret = "False"
                 /\ storage' = storage]_vars

\* C15 witness: a base storage with room stored the record of the handle, a
\* first kill emptied the storage and the kill that followed returned False
C15_Witness ==
    /\ policy = "BASE"
    /\ capacity >= 1
    /\ storage = <<>>
    /\ handles # {}
    /\ last.op \in {"manager.kill", "process.kill"}
    /\ last.ret = "False"

\* the value of the field a criteria names: creation time, priority or pid
ChosenKey(r, criteria) ==
    IF criteria = "TIME" THEN r.created
    ELSE IF criteria = "PRIORITY" THEN r.priority
    ELSE r.pid

\* C16: list result. For every criteria and order, the list returned holds
\* each stored record exactly once and nothing else, and its keys are
\* non-decreasing for ASC and non-increasing for DESC.
C16_ListResult ==
    last.op = "storage.list"
        => /\ Len(last.result) = Len(storage)
           /\ Range(last.result) = Range(storage)
           /\ \A r \in Range(storage) :
                Cardinality({i \in 1..Len(last.result) : last.result[i] = r}) = 1
           /\ \A i, j \in 1..Len(last.result) :
                i < j =>
                  IF last.order = "ASC"
                  THEN ChosenKey(last.result[i], last.criteria)
                         <= ChosenKey(last.result[j], last.criteria)
                  ELSE ChosenKey(last.result[i], last.criteria)
                         >= ChosenKey(last.result[j], last.criteria)

\* C16 witness: a descending list by priority of two records stored in
\* ascending order of priority
C16_Witness ==
    /\ last.op = "storage.list"
    /\ last.criteria = "PRIORITY"
    /\ last.order = "DESC"
    /\ Len(storage) = 2
    /\ storage[1].priority < storage[2].priority
    /\ last.result = <<storage[2], storage[1]>>

\* C17: list stability. For ASC and for DESC, two stored records of equal
\* sort key appear in the list in the order in which the dictionary
\* enumerates them.
C17_ListStability ==
    last.op = "storage.list"
        => \A i, j \in 1..Len(storage) :
             (i < j /\ ChosenKey(storage[i], last.criteria) = ChosenKey(storage[j], last.criteria))
             => \E k, l \in 1..Len(last.result) :
                  k < l /\ last.result[k] = storage[i] /\ last.result[l] = storage[j]

\* C17 witness: a descending list by creation time of two records created at
\* the same time and inserted against the order of their pids
C17_Witness ==
    /\ last.op = "storage.list"
    /\ last.criteria = "TIME"
    /\ last.order = "DESC"
    /\ Len(storage) = 2
    /\ storage[1].created = storage[2].created
    /\ storage[1].pid > storage[2].pid
    /\ last.result = storage

\* C18: list is read-only and repeatable. list leaves the dictionary as it
\* was, keys, records and enumeration order, and a list call that follows a
\* list call with the same criteria and order returns the same sequence.
C18_ListReadOnly ==
    [][last'.op = "storage.list"
         => /\ storage' = storage
            /\ (/\ last.op = "storage.list"
                /\ last'.criteria = last.criteria
                /\ last'.order = last.order)
               => last'.result = last.result]_vars

\* C18 witness: the second of two list calls with the same arguments, on a
\* storage whose enumeration order is not the sorted order
C18_Witness ==
    /\ last.op = "storage.list"
    /\ last.again
    /\ Len(storage) = 2
    /\ last.result # storage

\* C19: atomic evict-then-insert. While a FIFO or priority add on a full
\* storage is replacing a record, a thread that reads len never sees the
\* dictionary with the victim already removed and the new record not yet
\* inserted.
C19_AtomicEvictThenInsert ==
    last.op = "storage.len" => ~last.midway

\* C20: capacity under interleaving. When the statements of two add calls on
\* the same storage interleave (capacity test, duplicate test, insertion),
\* the dictionary never holds more records than the capacity.
C20_CapacityUnderInterleaving ==
    \A n \in 0..Len(storage) : n <= capacity

\* C21: remove is a pure storage mutation. In each storage, remove of any
\* record, stored or absent, invokes the kill() of no Process.
C21_RemoveNeverKills ==
    last.op = "storage.remove" => last.kills = {}

\* C21 witness: a successful remove on a storage that still holds another
\* record afterwards
C21_Witness ==
    /\ last.op = "storage.remove"
    /\ last.res = "OK"
    /\ Len(storage) >= 1

\* C22: kill_group. On a TaskManager whose records were all stored by
\* TaskManager.add, kill_group(P) returns the number of records that had
\* priority P before the call, kills exactly those records, leaves no stored
\* record of priority P and leaves the records of the other priorities as
\* they were, in their order.
C22_KillGroup ==
    [][\A prio \in ProcessPriority :
         (last'.op = "manager.kill_group" /\ ManagerKillGroup(prio))
         => /\ last'.count = Cardinality({i \in 1..Len(storage) : storage[i].priority = prio})
            /\ last'.kills = {r \in Range(storage) : r.priority = prio}
            /\ \A i \in 1..Len(storage') : storage'[i].priority # prio
            /\ storage' = SelectSeq(storage, LAMBDA r : r.priority # prio)]_vars

\* C22 witness: kill_group has killed one record and left a record of
\* another priority stored
C22_Witness ==
    /\ last.op = "manager.kill_group"
    /\ last.count = 1
    /\ Len(storage) = 1
    /\ storage[1].priority # last.priority

\* C23: kill_all. On a TaskManager whose records were all stored by
\* TaskManager.add, kill_all returns True and leaves the storage empty,
\* whatever the storage held, nothing included.
C23_KillAll ==
    last.op = "manager.kill_all" => last.ret = "True" /\ storage = <<>>

\* C23 witness: kill_all has killed two records
C23_Witness ==
    /\ last.op = "manager.kill_all"
    /\ Cardinality(last.kills) = 2
    /\ last.evicted = last.kills

\* C24: a failed add leaves the store untouched. In each storage, an add that
\* returns FAILED or FULL leaves the dictionary as it was before the call:
\* nothing evicted, nothing inserted.
C24_FailedAddLeavesStore ==
    [][\A p \in Reachable :
         (/\ last'.op = "storage.add"
          /\ StorageAdd(p)
          /\ last'.res \in {"FAILED", "FULL"})
         => storage' = storage /\ last'.evicted = {}]_vars

\* C25: stale handle of an evicted record. Once the record of a handle
\* returned by TaskManager.add has been evicted by a later add of a FIFO or
\* priority storage, TaskManager.kill(handle) and handle.kill() return False
\* and leave the dictionary as it is, the record that replaced it included.
C25_StaleHandleKill ==
    [][\A h \in stale :
         (\/ last'.op = "manager.kill" /\ ManagerKill(h)
          \/ last'.op = "process.kill" /\ ProcessKill(h))
         => /\ last'.ret = "False"
            /\ storage' = storage]_vars

\* C25 witness: the only handle held is one whose record was evicted, the
\* kill on it returned False and the storage is still at capacity
C25_Witness ==
    /\ policy \in {"FIFO", "PRIORITY"}
    /\ stale # {}
    /\ handles = stale
    /\ last.op \in {"manager.kill", "process.kill"}
    /\ last.ret = "False"
    /\ capacity >= 1
    /\ Len(storage) = capacity

\* C26: independent managers. For two TaskManager instances built without
\* a storage argument, an add, a kill or a kill_all through one of them
\* changes neither len() nor list() of the other.
C26_IndependentManagers ==
    [][\A m \in Managers :
         (\/ \E prio \in ProcessPriority : last'.op = "manager.add" /\ AddThrough(m, prio)
          \/ \E p \in Range(storage) : last'.op = "manager.kill" /\ KillThrough(m, p)
          \/ last'.op = "manager.kill_all" /\ KillAllThrough(m))
         => \A o \in Managers \ {m} : LenOf(o)' = LenOf(o) /\ ListOf(o)' = ListOf(o)]_vars

====
